---------------------------- MODULE Spec2Model ----------------------------
(***************************************************************************)
(* A model of the traffic-accident pipeline: acquisition (data_loader.py), *)
(* schema reconciliation (process_and_validate.py) and the value pipeline  *)
(* and exporter (cleaning_and_export.py).                                  *)
(*                                                                         *)
(* Text is a sequence of one-character strings, so that the substitutions  *)
(* the code performs on text are computed character by character.  A cell  *)
(* of a table is Null, Int(n) or Str(text).                                *)
(***************************************************************************)
EXTENDS Integers, Sequences, FiniteSets, Bags, TLC

VARIABLES
    pc,               \* position of the run under the specification at hand
    exc,              \* the exception that reached the caller, "none" if none
    pl_df,            \* the polars frame (or column) handed to a stage
    pl_ret,           \* the frame (or column) the stage returned
    state_of_interest,\* filter_data: the accepted spellings
    min_severity,     \* filter_crash_severity: the threshold handed in
    severity_ret,     \* filter_crash_severity: the column returned
    df,               \* convert_numeric_columns: the pandas frame handed in
    cols_to_convert,  \* convert_numeric_columns: the listed columns
    df_ret,           \* convert_numeric_columns: the frame returned
    total_coerced,    \* convert_numeric_columns: the total it reports
    format,           \* export_dataframe: the format tag
    options,          \* export_dataframe: the caller's options
    file_path,        \* export_dataframe: the destination path
    files,            \* export_dataframe: the files on disk, path -> content
    stdout,           \* export_dataframe: what was printed
    year_dirs,        \* the year directories under base_dir, year -> files
    all_dfs,          \* process_and_clean_data: the per-file tables returned
    df_final,         \* process_and_clean_data: the unified table returned
    perm,             \* another order of the per-file tables
    df_perm,          \* the unified table of the tables in that order
    is_valid,         \* what validate_data returned
    links,            \* get_data: the links of the page, in order
    idx,              \* get_data: the link the loop is at, 0 outside a call
    run,              \* the calls of get_data that have returned
    dest,             \* the files of the destination folders, place -> content
    temp,             \* the temp_extract directory
    caught,           \* what the last call of get_data caught, "none" if nothing
    faulted,          \* whether the file system has failed a write or a move
    dest_at_call,     \* the destination folders when the last call began
    dest_first        \* the destination folders when the first call returned

valueVars == <<pl_df, pl_ret, state_of_interest, min_severity, severity_ret>>
numericVars == <<df, cols_to_convert, df_ret, total_coerced>>
exportVars == <<format, options, file_path, files, stdout>>

schemaVars == <<year_dirs, all_dfs, df_final, perm, df_perm, is_valid>>

loaderVars == <<links, idx, run, dest, temp, caught, faulted, dest_at_call, dest_first>>

vars == <<pc, exc, valueVars, numericVars, exportVars, schemaVars, loaderVars>>

Idle == <<>>

ValueIdle ==
    /\ pl_df = Idle /\ pl_ret = Idle /\ state_of_interest = Idle
    /\ min_severity = Idle /\ severity_ret = Idle
NumericIdle == df = Idle /\ cols_to_convert = Idle /\ df_ret = Idle /\ total_coerced = 0
SchemaIdle == year_dirs = Idle /\ all_dfs = Idle /\ df_final = Idle /\ perm = Idle /\ df_perm = Idle /\ is_valid = FALSE
LoaderIdle ==
    /\ links = Idle /\ idx = 0 /\ run = 0 /\ dest = Idle /\ temp = Idle
    /\ caught = "none" /\ faulted = FALSE /\ dest_at_call = Idle /\ dest_first = Idle
ExportIdle == format = Idle /\ options = Idle /\ file_path = Idle /\ files = Idle /\ stdout = Idle

---------------------------------------------------------------------------
(* Cells *)

Null == [kind |-> "null"]
Int64(n) == [kind |-> "int", v |-> n]
Str(s) == [kind |-> "str", v |-> s]

IsStr(c) == c.kind = "str"

---------------------------------------------------------------------------
(* Text primitives of the Python and polars string methods the code calls *)

Digits == <<"0", "1", "2", "3", "4", "5", "6", "7", "8", "9">>

UpperLetters == <<"A", "B", "C", "D", "E", "F", "G", "H", "I", "J", "K", "L", "M", "N", "O", "P", "Q", "R", "S", "T", "U", "V", "W", "X", "Y", "Z">>

LowerLetters == <<"a", "b", "c", "d", "e", "f", "g", "h", "i", "j", "k", "l", "m", "n", "o", "p", "q", "r", "s", "t", "u", "v", "w", "x", "y", "z">>

IndexIn(seq, c) == CHOOSE k \in 1..Len(seq) : seq[k] = c

InSeq(seq, c) == \E k \in 1..Len(seq) : seq[k] = c

MapChars(f(_), s) == [k \in 1..Len(s) |-> f(s[k])]

\* str.lower() / pl str.to_lowercase() on one character
LowerChar(c) ==
    IF InSeq(UpperLetters, c) THEN LowerLetters[IndexIn(UpperLetters, c)]
    ELSE IF c = "Í" THEN "í"
    ELSE IF c = "Ñ" THEN "ñ"
    ELSE c

UpperChar(c) ==
    IF InSeq(LowerLetters, c) THEN UpperLetters[IndexIn(LowerLetters, c)]
    ELSE IF c = "í" THEN "Í"
    ELSE IF c = "ñ" THEN "Ñ"
    ELSE c

ToLowercase(s) == MapChars(LowerChar, s)

ToUppercase(s) == MapChars(UpperChar, s)

\* pattern p occurs in s starting at position i
MatchAt(s, i, p) ==
    /\ i + Len(p) - 1 <= Len(s)
    /\ SubSeq(s, i, i + Len(p) - 1) = p

Contains(s, p) == \E i \in 1..(Len(s) + 1) : MatchAt(s, i, p)

FirstMatch(s, p) == CHOOSE i \in 1..(Len(s) + 1) :
                        /\ MatchAt(s, i, p)
                        /\ \A j \in 1..(i - 1) : ~MatchAt(s, j, p)

\* the patterns occurring at position i, and among them the one whose
\* occurrence ends first (the match the automaton reports)
HitsAt(s, i, pats) == {k \in 1..Len(pats) : Len(pats[k]) > 0 /\ MatchAt(s, i, pats[k])}

HitAt(s, i, pats) ==
    CHOOSE k \in HitsAt(s, i, pats) :
        \A j \in HitsAt(s, i, pats) :
            \/ Len(pats[k]) < Len(pats[j])
            \/ (Len(pats[k]) = Len(pats[j]) /\ k <= j)

\* str.replace_many(pats, reps): one left-to-right pass over s, every
\* non-overlapping occurrence of pats[k] replaced by reps[k]; replaced text
\* is not scanned again
RECURSIVE ReplaceManyFrom(_, _, _, _)
ReplaceManyFrom(s, i, pats, reps) ==
    IF i > Len(s) THEN <<>>
    ELSE IF HitsAt(s, i, pats) = {}
         THEN <<s[i]>> \o ReplaceManyFrom(s, i + 1, pats, reps)
         ELSE LET k == HitAt(s, i, pats)
              IN  reps[k] \o ReplaceManyFrom(s, i + Len(pats[k]), pats, reps)

ReplaceMany(s, pats, reps) == ReplaceManyFrom(s, 1, pats, reps)

\* str.replace(lit + ".*", lit): the first occurrence of lit together with
\* the rest of the text is replaced by lit (no text here holds a line break)
ReplaceToEnd(s, lit) ==
    IF Contains(s, lit)
    THEN SubSeq(s, 1, FirstMatch(s, lit) - 1) \o lit
    ELSE s

IsDigit(c) == InSeq(Digits, c)

DigitValue(c) == IndexIn(Digits, c) - 1

RECURSIVE DecimalValue(_)
DecimalValue(s) ==
    IF Len(s) = 0 THEN 0
    ELSE 10 * DecimalValue(SubSeq(s, 1, Len(s) - 1)) + DigitValue(s[Len(s)])

IsIntegerText(s) == Len(s) > 0 /\ \A k \in 1..Len(s) : IsDigit(s[k])

\* .cast(pl.Int64, strict=False) of a text cell: the integer the text
\* spells, null for any other text (the texts of this model carry no sign)
CastInt64(c) ==
    IF IsStr(c) /\ IsIntegerText(c.v) THEN Int64(DecimalValue(c.v)) ELSE Null

\* a polars string expression applied to one cell: null stays null
OnText(f(_), c) == IF IsStr(c) THEN Str(f(c.v)) ELSE Null

\* texts made of at most n fragments
RECURSIVE Joined(_, _)
Joined(frags, n) ==
    IF n = 0 THEN {<<>>}
    ELSE Joined(frags, n - 1) \cup
         {a \o b : a \in Joined(frags, n - 1), b \in frags}

---------------------------------------------------------------------------
(* translate_months: cleaning_and_export.py *)

months_spanish ==
    << <<"e", "n", "e", "r", "o">>, <<"f", "e", "b", "r", "e", "r", "o">>, <<"m", "a", "r", "z", "o">>, <<"a", "b", "r", "i", "l">>, <<"m", "a", "y", "o">>, <<"j", "u", "n", "i", "o">>,
       <<"j", "u", "l", "i", "o">>, <<"a", "g", "o", "s", "t", "o">>, <<"s", "e", "p", "t", "i", "e", "m", "b", "r", "e">>, <<"o", "c", "t", "u", "b", "r", "e">>, <<"n", "o", "v", "i", "e", "m", "b", "r", "e">>,
       <<"d", "i", "c", "i", "e", "m", "b", "r", "e">> >>

months_english ==
    << <<"J", "a", "n", "u", "a", "r", "y">>, <<"F", "e", "b", "r", "u", "a", "r", "y">>, <<"M", "a", "r", "c", "h">>, <<"A", "p", "r", "i", "l">>, <<"M", "a", "y">>, <<"J", "u", "n", "e">>,
       <<"J", "u", "l", "y">>, <<"A", "u", "g", "u", "s", "t">>, <<"S", "e", "p", "t", "e", "m", "b", "e", "r">>, <<"O", "c", "t", "o", "b", "e", "r">>, <<"N", "o", "v", "e", "m", "b", "e", "r">>,
       <<"D", "e", "c", "e", "m", "b", "e", "r">> >>

\* str(i) for a natural number i
RECURSIVE DecimalText(_)
DecimalText(i) ==
    IF i < 10 THEN <<Digits[i + 1]>>
    ELSE DecimalText(i \div 10) \o <<Digits[(i % 10) + 1]>>

\* numbers = [str(i) for i in range(1, 13)]
numbers == [i \in 1..Len(months_english) |-> DecimalText(i)]

MonthNumbers(c) ==
    OnText(LAMBDA s : ReplaceMany(s, months_english, numbers), c)

MonthEnglish(c) ==
    OnText(LAMBDA s : ReplaceMany(ToLowercase(s), months_spanish, months_english), c)

TranslateMonthsCell(c) == CastInt64(MonthNumbers(MonthEnglish(c)))

translate_months(col) == [k \in 1..Len(col) |-> TranslateMonthsCell(col[k])]

MaxMonthParts == 2

MonthFragments ==
    {months_spanish[i] : i \in 1..Len(months_spanish)} \cup {<<"x", "y", "z">>, <<"1">>, <<"7">>}

MonthTexts == Joined(MonthFragments, MaxMonthParts)

MonthCells == {Null} \cup {Str(t) : t \in MonthTexts}
                     \cup {Str(ToUppercase(t)) : t \in MonthTexts}

MonthsExample == << Str(<<"e", "n", "e", "r", "o">>), Str(<<"d", "i", "c", "i", "e", "m", "b", "r", "e">>), Str(<<"E", "N", "E", "R", "O">>), Str(<<"x", "y", "z">>) >>

\* The stage is applied to every cell of the column on its own, so the
\* one-row frames range over the texts and the documented frame is kept whole.
InitMonths ==
    /\ pc = "start"
    /\ exc = "none"
    /\ \/ pl_df = MonthsExample
       \/ pl_df \in {<<c>> : c \in MonthCells}
    /\ pl_ret = Idle
    /\ state_of_interest = Idle
    /\ min_severity = Idle
    /\ severity_ret = Idle
    /\ NumericIdle
    /\ ExportIdle
    /\ SchemaIdle
    /\ LoaderIdle

TranslateMonths ==
    /\ pc = "start"
    /\ pl_ret' = translate_months(pl_df)
    /\ pc' = "done"
    /\ UNCHANGED <<exc, pl_df, state_of_interest, min_severity, severity_ret, numericVars, exportVars, schemaVars, loaderVars>>

NextMonths == TranslateMonths

SpecMonths == InitMonths /\ [][NextMonths]_vars

IsMonthName(s) == \E i \in 1..Len(months_spanish) : ToLowercase(s) = months_spanish[i]

\* C5: the i-th Spanish month name in any letter case becomes i, every text
\* that is neither a month name nor an integer becomes null, and the
\* documented frame becomes [1, 12, 1, null].
C5_MonthsTranslated ==
    pc = "done" =>
        /\ \A k \in 1..Len(pl_df) :
              IsStr(pl_df[k]) =>
                 /\ \A i \in 1..Len(months_spanish) :
                       ToLowercase(pl_df[k].v) = months_spanish[i]
                          => pl_ret[k] = Int64(i)
                 /\ (~IsMonthName(pl_df[k].v) /\ ~IsIntegerText(pl_df[k].v))
                          => pl_ret[k] = Null
        /\ pl_df = MonthsExample
              => pl_ret = <<Int64(1), Int64(12), Int64(1), Null>>

\* the part of C5 about month names alone
C5_MonthNames ==
    pc = "done" =>
        /\ \A k \in 1..Len(pl_df) :
              IsStr(pl_df[k]) =>
                 \A i \in 1..Len(months_spanish) :
                       ToLowercase(pl_df[k].v) = months_spanish[i]
                          => pl_ret[k] = Int64(i)
        /\ pl_df = MonthsExample
              => pl_ret = <<Int64(1), Int64(12), Int64(1), Null>>

---------------------------------------------------------------------------
(* process_damage_levels: cleaning_and_export.py *)

damage_spanish == << <<"B", "a", "j", "o">>, <<"A", "l", "t", "o">>, <<"M", "e", "d", "i", "o">>, <<"S", "i", "n", " ">> >>

damage_english == << <<"L", "o", "w">>, <<"H", "i", "g", "h">>, <<"M", "e", "d", "i", "u", "m">>, <<"N", "o", " ", "d", "a", "m", "a", "g", "e">> >>

damage_numbers == << <<"2">>, <<"4">>, <<"3">>, <<"1">> >>

ProcessDamageCell(c) ==
    CastInt64(
      OnText(LAMBDA s4 : ReplaceToEnd(s4, <<"1">>),
        OnText(LAMBDA s3 : ReplaceMany(s3, damage_english, damage_numbers),
          OnText(LAMBDA s2 : ReplaceToEnd(s2, <<"N", "o", " ", "d", "a", "m", "a", "g", "e">>),
            OnText(LAMBDA s1 : ReplaceMany(s1, damage_spanish, damage_english),
                   c)))))

process_damage_levels(col) == [k \in 1..Len(col) |-> ProcessDamageCell(col[k])]

MaxDamageParts == 2

\* filter_crash_severity (filter_and_visualize.py): the levels that are not
\* null and not below the threshold, in order
RECURSIVE SeverityFrom(_, _, _)
SeverityFrom(col, m, k) ==
    IF k > Len(col) THEN <<>>
    ELSE IF col[k] # Null /\ col[k].v >= m
         THEN <<col[k]>> \o SeverityFrom(col, m, k + 1)
         ELSE SeverityFrom(col, m, k + 1)

filter_crash_severity(col, m) == SeverityFrom(col, m, 1)

\* thresholds handed in, one below and one above the accepted range
SeverityChoices == (0 - 1)..5

DamageFragments ==
    {damage_spanish[i] : i \in 1..Len(damage_spanish)} \cup
    {<<"d", "a", "ñ", "o">>, <<" ", "d", "a", "ñ", "o", " ", "t", "o", "t", "a", "l">>, <<"d", "e", "s", "c", "o", "n", "o", "c", "i", "d", "o">>, <<"1">>, <<"2">>, <<"5">>}

DamageCells == {Null} \cup {Str(t) : t \in Joined(DamageFragments, MaxDamageParts)}

DamageExample ==
    << Str(<<"B", "a", "j", "o">>), Str(<<"A", "l", "t", "o", " ", "d", "a", "ñ", "o", " ", "t", "o", "t", "a", "l">>), Str(<<"M", "e", "d", "i", "o">>), Str(<<"S", "i", "n", " ", "d", "a", "ñ", "o">>),
       Str(<<"d", "e", "s", "c", "o", "n", "o", "c", "i", "d", "o">>) >>

\* The stage is applied to every cell of the column on its own, so the
\* one-row frames range over the texts and the documented frame is kept whole.
InitDamage ==
    /\ pc = "start"
    /\ exc = "none"
    /\ \/ pl_df = DamageExample
       \/ pl_df \in {<<c>> : c \in DamageCells}
    /\ pl_ret = Idle
    /\ state_of_interest = Idle
    /\ min_severity \in SeverityChoices
    /\ severity_ret = Idle
    /\ NumericIdle
    /\ ExportIdle
    /\ SchemaIdle
    /\ LoaderIdle

ProcessDamageLevels ==
    /\ pc = "start"
    /\ pl_ret' = process_damage_levels(pl_df)
    /\ pc' = "done"
    /\ UNCHANGED <<exc, pl_df, state_of_interest, min_severity, severity_ret, numericVars,
                   exportVars, schemaVars, loaderVars>>

\* filter_crash_severity on the column process_damage_levels returned
FilterCrashSeverity ==
    /\ pc = "done"
    /\ IF min_severity < 0 \/ min_severity > 4
       THEN /\ exc' = "ValueError"
            /\ pc' = "raised"
            /\ UNCHANGED severity_ret
       ELSE /\ severity_ret' = filter_crash_severity(pl_ret, min_severity)
            /\ pc' = "filtered"
            /\ UNCHANGED exc
    /\ UNCHANGED <<pl_df, pl_ret, state_of_interest, min_severity, numericVars, exportVars,
                   schemaVars, loaderVars>>

NextDamage == ProcessDamageLevels \/ FilterCrashSeverity

SpecDamage == InitDamage /\ [][NextDamage]_vars

HasDamageToken(s) == \E t \in 1..Len(damage_spanish) : Contains(s, damage_spanish[t])

\* C4: a text whose core token is Bajo, Alto, Medio or "Sin " becomes 2, 4,
\* 3 or 1, with or without text after the token; a text with none of the
\* tokens that is no integer becomes null; the documented frame becomes
\* [2, 4, 3, 1, null].
C4_DamageTranslated ==
    pc = "done" =>
        /\ \A k \in 1..Len(pl_df) :
              IsStr(pl_df[k]) =>
                 /\ \A t \in 1..Len(damage_spanish) :
                       MatchAt(pl_df[k].v, 1, damage_spanish[t])
                          => pl_ret[k] = Int64(DecimalValue(damage_numbers[t]))
                 /\ (~HasDamageToken(pl_df[k].v) /\ ~IsIntegerText(pl_df[k].v))
                          => pl_ret[k] = Null
        /\ pl_df = DamageExample
              => pl_ret = <<Int64(2), Int64(4), Int64(3), Int64(1), Null>>


\* C13: after process_damage_levels every damage level is null or one of
\* 1..4, whatever the text was, so that no level lies above every threshold
\* filter_crash_severity accepts.
C13_LevelsInRange ==
    pc # "start" =>
        \A k \in 1..Len(pl_ret) :
            pl_ret[k] = Null \/ (pl_ret[k].kind = "int" /\ pl_ret[k].v \in 1..4)

\* the places of a text where one of the four tokens begins
TokenPlaces(s) ==
    {a \in 1..Len(s) : \E t \in 1..Len(damage_spanish) : MatchAt(s, a, damage_spanish[t])}

\* a text that holds no digit and at most one of the four tokens becomes
\* null or one of 1..4
C13_TokenTextsInRange ==
    pc # "start" =>
        \A k \in 1..Len(pl_df) :
            (/\ IsStr(pl_df[k])
             /\ \A b \in 1..Len(pl_df[k].v) : ~IsDigit(pl_df[k].v[b])
             /\ Cardinality(TokenPlaces(pl_df[k].v)) <= 1)
              => (pl_ret[k] = Null \/ (pl_ret[k].kind = "int" /\ pl_ret[k].v \in 1..4))
---------------------------------------------------------------------------
(* convert_numeric_columns: cleaning_and_export.py *)

\* pd.to_numeric(..., errors="coerce") on one cell: a number stays, a text
\* that spells a number becomes it, any other text (the empty text too)
\* becomes NaN, NaN stays (the texts of this model hold digits and letters)
ToNumericCell(c) ==
    IF IsStr(c)
    THEN IF IsIntegerText(c.v) THEN Int64(DecimalValue(c.v)) ELSE Null
    ELSE c

ToNumeric(col) == [k \in 1..Len(col) |-> ToNumericCell(col[k])]

\* a mask that takes the empty text for a missing value
CoerceMaskSkippingEmpty(col) ==
    [k \in 1..Len(col) |->
        ToNumericCell(col[k]) = Null /\ col[k] # Null /\ col[k] # Str(<<>>)]

\* pd.to_numeric(df[col], errors="coerce").isna() & df[col].notna()
CoerceMask(col) ==
    [k \in 1..Len(col) |-> ToNumericCell(col[k]) = Null /\ col[k] # Null]

MaskSum(mask) == Cardinality({k \in 1..Len(mask) : mask[k]})

\* the loop over cols_to_convert from its i-th entry on, d the frame and
\* total the running total so far; a column the frame lacks raises
\* KeyError, which the loop body catches
RECURSIVE ConvertFrom(_, _, _, _)
ConvertFrom(d, cols, i, total) ==
    IF i > Len(cols) THEN [df |-> d, total_coerced |-> total]
    ELSE IF cols[i] \notin DOMAIN d
         THEN ConvertFrom(d, cols, i + 1, total)
         ELSE ConvertFrom([d EXCEPT ![cols[i]] = ToNumeric(d[cols[i]])],
                          cols, i + 1, total + MaskSum(CoerceMask(d[cols[i]])))

convert_numeric_columns(d, cols) == ConvertFrom(d, cols, 1, 0)

MaxNumericRows == 2

NumericCells == {Null, Str(<<>>), Str(<<"1", "2">>), Str(<<"a", "b", "c">>), Int64(3)}

NumericColumns == {"siniestro", "modelo"}

NumericExample ==
    [c \in NumericColumns |->
        IF c = "siniestro"
        THEN << Str(<<"1", "2">>), Str(<<"a", "b", "c">>), Str(<<>>), Str(<<"7">>) >>
        ELSE << Int64(3), Int64(3), Int64(3), Int64(3) >>]

NumericFrames ==
    UNION {[NumericColumns -> [1..n -> NumericCells]] : n \in 0..MaxNumericRows}

InitNumeric ==
    /\ pc = "start"
    /\ exc = "none"
    /\ \/ df = NumericExample /\ cols_to_convert = <<"siniestro">>
       \/ /\ df \in NumericFrames
          /\ cols_to_convert \in {<<"siniestro">>, <<"siniestro", "modelo">>,
                                  <<"modelo", "hora", "siniestro">>,
                                  <<"siniestro", "siniestro">>}
    /\ df_ret = Idle
    /\ total_coerced = 0
    /\ ValueIdle
    /\ ExportIdle
    /\ SchemaIdle
    /\ LoaderIdle

ConvertNumericColumns ==
    /\ pc = "start"
    /\ LET r == convert_numeric_columns(df, cols_to_convert)
       IN  /\ df_ret' = r.df
           /\ total_coerced' = r.total_coerced
    /\ pc' = "done"
    /\ UNCHANGED <<exc, df, cols_to_convert, valueVars, exportVars, schemaVars, loaderVars>>

NextNumeric == ConvertNumericColumns

SpecNumeric == InitNumeric /\ [][NextNumeric]_vars

Listed(cols) == {cols[i] : i \in 1..Len(cols)}

\* the cells of the listed columns
ListedCells ==
    UNION {{<<c, k>> : k \in 1..Len(df[c])} : c \in Listed(cols_to_convert) \cap DOMAIN df}

Unparsable(c) == IsStr(c) /\ ~IsIntegerText(c.v)

\* C6 as stated: the total is the number of cells of the listed columns that
\* were non-null and non-empty and do not parse, so that ["12", "abc", "", "7"]
\* counts one.
C6_CoercedNonEmpty ==
    pc = "done" =>
        /\ total_coerced =
              Cardinality({x \in ListedCells :
                              Unparsable(df[x[1]][x[2]]) /\ df[x[1]][x[2]] # Str(<<>>)})
        /\ (df = NumericExample /\ cols_to_convert = <<"siniestro">>)
              => total_coerced = 1

\* C6 amended: the total is the number of cells of the listed columns that
\* were non-null and do not parse, the empty text among them, and each such
\* cell is null afterwards; ["12", "abc", "", "7"] counts two.
C6_CoercedNonNull ==
    pc = "done" =>
        /\ total_coerced =
              Cardinality({x \in ListedCells : Unparsable(df[x[1]][x[2]])})
        /\ \A x \in ListedCells :
              Unparsable(df[x[1]][x[2]]) => df_ret[x[1]][x[2]] = Null
        /\ (df = NumericExample /\ cols_to_convert = <<"siniestro">>)
              => total_coerced = 2

\* a run that counted an empty text and an unparsable word
C6_Witness ==
    /\ pc = "done"
    /\ \E x \in ListedCells : df[x[1]][x[2]] = Str(<<>>)
    /\ \E x \in ListedCells : df[x[1]][x[2]] = Str(<<"a", "b", "c">>)
    /\ total_coerced >= 2

---------------------------------------------------------------------------
(* filter_data: cleaning_and_export.py *)

\* the default of state_of_interest
DefaultStates == << <<"c", "i", "u", "d", "a", "d">>, <<"C", "i", "u", "d", "a", "d">>, <<"C", "I", "U", "D", "A", "D">> >>

\* a test that ignores letter case
ContainsAnyIgnoringCase(c, pats) ==
    IsStr(c) /\ \E i \in 1..Len(pats) : Contains(ToLowercase(c.v), ToLowercase(pats[i]))

\* pl.col("estado").str.contains_any(pats) as the filter reads it: a null
\* cell gives null, which the filter takes for false
ContainsAny(c, pats) ==
    IsStr(c) /\ \E i \in 1..Len(pats) : Contains(c.v, pats[i])

RECURSIVE FilterFrom(_, _, _)
FilterFrom(frame, i, pats) ==
    IF i > Len(frame) THEN <<>>
    ELSE (IF ContainsAny(frame[i].estado, pats) THEN <<frame[i]>> ELSE <<>>)
         \o FilterFrom(frame, i + 1, pats)

filter_data(frame, pats) == FilterFrom(frame, 1, pats)

MaxFilterRows == 3

EstadoCells ==
    {Null, Str(<<"C", "i", "u", "d", "a", "d", " ", "d", "e", " ", "M", "e", "x", "i", "c", "o">>), Str(<<"J", "a", "l", "i", "s", "c", "o">>), Str(<<"C", "I", "U", "D", "A", "D", " ", "D", "E", " ", "M", "E", "X", "I", "C", "O">>),
     Str(<<"C", "d", ".", " ", "M", "e", "x", "i", "c", "o">>), Str(<<"C", "i", "U", "d", "A", "d", " ", "J", "u", "a", "r", "e", "z">>), Str(<<"l", "a", " ", "c", "i", "u", "d", "a", "d">>)}

\* a frame of n rows; siniestro numbers the rows so that each one is
\* told apart from the others
FilterFrames ==
    UNION {{[k \in 1..n |-> [siniestro |-> Int64(k), estado |-> e[k]]] :
               e \in [1..n -> EstadoCells]} : n \in 0..MaxFilterRows}

InitFilter ==
    /\ pc = "start"
    /\ exc = "none"
    /\ pl_df \in FilterFrames
    /\ state_of_interest \in {DefaultStates, << <<"J", "a", "l", "i", "s", "c", "o">> >>}
    /\ min_severity = Idle
    /\ severity_ret = Idle
    /\ pl_ret = Idle
    /\ NumericIdle
    /\ ExportIdle
    /\ SchemaIdle
    /\ LoaderIdle

FilterData ==
    /\ pc = "start"
    /\ pl_ret' = filter_data(pl_df, state_of_interest)
    /\ pc' = "done"
    /\ UNCHANGED <<exc, pl_df, state_of_interest, min_severity, severity_ret, numericVars, exportVars, schemaVars, loaderVars>>

NextFilter == FilterData

SpecFilter == InitFilter /\ [][NextFilter]_vars

\* the text holds one of the accepted spellings, letter for letter
HoldsSpelling(c) ==
    /\ c # Null
    /\ \E i \in 1..Len(state_of_interest) :
          \E a \in 1..Len(c.v) :
             /\ a + Len(state_of_interest[i]) - 1 <= Len(c.v)
             /\ \A b \in 1..Len(state_of_interest[i]) :
                   c.v[a + b - 1] = state_of_interest[i][b]

\* C7: the rows returned are exactly the rows whose estado holds one of the
\* accepted spellings as a case-sensitive substring, in their original order
\* and unchanged; with the default spellings "Ciudad de Mexico" is kept and
\* "Jalisco" is dropped.
C7_FilterExact ==
    pc = "done" =>
        /\ \A j \in 1..Len(pl_ret) :
              /\ pl_ret[j].siniestro.v \in 1..Len(pl_df)
              /\ pl_ret[j] = pl_df[pl_ret[j].siniestro.v]
              /\ HoldsSpelling(pl_ret[j].estado)
        /\ \A i, j \in 1..Len(pl_ret) :
              i < j => pl_ret[i].siniestro.v < pl_ret[j].siniestro.v
        /\ \A k \in 1..Len(pl_df) :
              HoldsSpelling(pl_df[k].estado)
                 => \E j \in 1..Len(pl_ret) : pl_ret[j] = pl_df[k]
        /\ state_of_interest = DefaultStates =>
              \A k \in 1..Len(pl_df) :
                 /\ pl_df[k].estado = Str(<<"C", "i", "u", "d", "a", "d", " ", "d", "e", " ", "M", "e", "x", "i", "c", "o">>)
                       => \E j \in 1..Len(pl_ret) : pl_ret[j] = pl_df[k]
                 /\ pl_df[k].estado = Str(<<"J", "a", "l", "i", "s", "c", "o">>)
                       => \A j \in 1..Len(pl_ret) : pl_ret[j] # pl_df[k]

\* a run under the default spellings that kept "Ciudad de Mexico" and
\* dropped "Jalisco", a null estado and a spelling in another letter case
C7_Witness ==
    /\ pc = "done"
    /\ state_of_interest = DefaultStates
    /\ Len(pl_df) = 3
    /\ pl_df[1].estado = Str(<<"J", "a", "l", "i", "s", "c", "o">>)
    /\ pl_df[2].estado = Str(<<"C", "i", "u", "d", "a", "d", " ", "d", "e", " ", "M", "e", "x", "i", "c", "o">>)
    /\ pl_df[3].estado \in {Null, Str(<<"C", "i", "U", "d", "A", "d", " ", "J", "u", "a", "r", "e", "z">>)}
    /\ pl_ret = <<pl_df[2]>>

---------------------------------------------------------------------------
(* export_dataframe: cleaning_and_export.py *)

\* default_options
default_options ==
    [fmt \in {"csv", "parquet", "json"} |->
        CASE fmt = "csv" -> [separator |-> ",", include_header |-> "True"]
          [] fmt = "parquet" -> [compression |-> "snappy"]
          [] fmt = "json" -> [pretty |-> "True"]]

\* the keyword arguments write_csv, write_parquet and write_json take, of
\* those that occur here
WriterKeywords ==
    [fmt \in {"csv", "parquet", "json"} |->
        CASE fmt = "csv" -> {"separator", "include_header"}
          [] fmt = "parquet" -> {"compression"}
          [] fmt = "json" -> {"pretty"}]

\* dict.update
Updated(a, b) ==
    [k \in DOMAIN a \cup DOMAIN b |-> IF k \in DOMAIN b THEN b[k] ELSE a[k]]

\* export_options: default_options.get(format, {}), updated with the
\* caller's options when these are given and not empty
ExportOptions(fmt, opts) ==
    LET base == IF fmt \in DOMAIN default_options THEN default_options[fmt] ELSE <<>>
    IN  IF DOMAIN opts # {} THEN Updated(base, opts) ELSE base

\* file_path.parent
Parent(path) == SubSeq(path, 1, Len(path) - 1)

ExportPaths == { <<"cleaned_crash_data.parquet">>, <<"exports", "out.csv">>,
                 <<"exports", "2024", "out.json">> }

ExportFormats == {"csv", "parquet", "json", "xlsx", "CSV"}

ExportOptionChoices == { <<>>, [separator |-> ";"], [compression |-> "zstd"] }

ExportFrames == { <<>>, <<Int64(1), Null>> }

InitExport ==
    /\ pc = "start"
    /\ exc = "none"
    /\ pl_df \in ExportFrames
    /\ pl_ret = Idle
    /\ state_of_interest = Idle
    /\ min_severity = Idle
    /\ severity_ret = Idle
    /\ NumericIdle
    /\ format \in ExportFormats
    /\ options \in ExportOptionChoices
    /\ file_path \in ExportPaths
    \* the disk is empty, or a plain file sits where a directory is wanted
    /\ files \in { <<>>, [p \in {<<"exports">>} |-> "a plain file"] }
    /\ stdout = <<>>
    /\ SchemaIdle
    /\ LoaderIdle

\* the whole of export_dataframe; write_ok is whether the writer, once
\* called with keywords it takes, gets the file onto the disk
ExportDataframe ==
    /\ pc = "start"
    /\ pc' = "done"
    /\ \/ \* parent.mkdir(parents=True, exist_ok=True) finds a plain file
          /\ \E n \in 1..Len(Parent(file_path)) :
                SubSeq(file_path, 1, n) \in DOMAIN files
          /\ exc' = "FileExistsError"
          /\ UNCHANGED <<files, stdout>>
       \/ /\ \A n \in 1..Len(Parent(file_path)) :
                SubSeq(file_path, 1, n) \notin DOMAIN files
          /\ \/ \* a supported format, keywords the writer takes
                /\ format \in DOMAIN default_options
                /\ DOMAIN ExportOptions(format, options) \subseteq WriterKeywords[format]
                /\ \E write_ok \in BOOLEAN :
                      IF write_ok
                      THEN /\ files' = Updated(files,
                                [p \in {file_path} |->
                                    [format |-> format,
                                     options |-> ExportOptions(format, options),
                                     frame |-> pl_df]])
                           /\ stdout' = <<"DataFrame successfully exported">>
                      ELSE /\ files' = files
                           /\ stdout' = <<"Error exporting DataFrame: OSError">>
                /\ exc' = "none"
             \/ \* a supported format, a keyword the writer does not take
                /\ format \in DOMAIN default_options
                /\ ~(DOMAIN ExportOptions(format, options) \subseteq WriterKeywords[format])
                /\ stdout' = <<"Error exporting DataFrame: TypeError">>
                /\ exc' = "none"
                /\ UNCHANGED files
             \/ \* raise ValueError(f"Unsupported format: {format}"), which
                \* `except Exception` catches and prints
                /\ format \notin DOMAIN default_options
                /\ exc' = "none"
                /\ stdout' = <<"Error exporting DataFrame: Unsupported format">>
                /\ UNCHANGED files
    /\ UNCHANGED <<valueVars, numericVars, schemaVars, loaderVars, format, options, file_path>>

NextExport == ExportDataframe

SpecExport == InitExport /\ [][NextExport]_vars

\* C8: a format tag other than csv, parquet and json ends in a ValueError
\* at the caller, and no output file is written.
C8_UnsupportedFormatRaises ==
    (pc = "done" /\ format \notin {"csv", "parquet", "json"}) =>
        /\ exc = "ValueError"
        /\ file_path \notin DOMAIN files

---------------------------------------------------------------------------
(* process_and_validate.py.  A table is [cols |-> the column labels in     *)
(* order, rows |-> the rows, each a sequence of cells as long as cols].    *)

FirstYear == 2015

CutoverYear == 2020

\* datetime.now().year
CurrentYear == 2021

Years == FirstYear..CurrentYear

EmptyFrame == [cols |-> <<>>, rows |-> <<>>]

Labels(t) == {t.cols[j] : j \in 1..Len(t.cols)}

\* the first column of the data dictionary
DictionaryHeaders == << <<"S", "i", "n", "i", "e", "s", "t", "r", "o">>, <<"M", "e", "s", " ", "R", "e", "p", "o", "r", "t", "e">>, <<"C", "i", "u", "d", "a", "d">> >>

\* headers.insert(headers.index("Mes Reporte") + 1, "Día Numero")
InsertAfter(seq, x, y) ==
    LET i == CHOOSE k \in 1..Len(seq) :
                 seq[k] = x /\ \A m \in 1..(k - 1) : seq[m] # x
    IN  SubSeq(seq, 1, i) \o <<y>> \o SubSeq(seq, i + 1, Len(seq))

read_headers == InsertAfter(DictionaryHeaders, <<"M", "e", "s", " ", "R", "e", "p", "o", "r", "t", "e">>, <<"D", "í", "a", " ", "N", "u", "m", "e", "r", "o">>)

EndsWith(s, p) == Len(p) <= Len(s) /\ SubSeq(s, Len(s) - Len(p) + 1, Len(s)) = p

\* [f for f in os.listdir(dir_path) if f.endswith(".csv")]
CsvFiles(fs) == SelectSeq(fs, LAMBDA f : EndsWith(f.name, <<".", "c", "s", "v">>))

\* pd.concat(tables, ignore_index=True) of tables whose labels agree
ConcatRows(tables) ==
    LET RECURSIVE RowsFrom(_)
        RowsFrom(i) == IF i > Len(tables) THEN <<>>
                       ELSE tables[i].rows \o RowsFrom(i + 1)
    IN  [cols |-> tables[1].cols, rows |-> RowsFrom(1)]

\* the CSV files met by `for year in years`, in order; a year without a
\* directory is passed over
RECURSIVE FilesOfYears(_, _)
FilesOfYears(dirs, ys) ==
    IF Len(ys) = 0 THEN <<>>
    ELSE (IF ys[1] \in DOMAIN dirs THEN CsvFiles(dirs[ys[1]]) ELSE <<>>)
         \o FilesOfYears(dirs, Tail(ys))

\* range(a, b)
Range(a, b) == [k \in 1..(b - a) |-> a + k - 1]

process_files_without_headers(dirs, ys, headers) ==
    LET fs == FilesOfYears(dirs, ys)
        dfs == [k \in 1..Len(fs) |-> [cols |-> headers, rows |-> fs[k].rows]]
    IN  IF Len(dfs) > 0 THEN ConcatRows(dfs) ELSE EmptyFrame

process_files_with_headers(dirs, ys) ==
    LET fs == FilesOfYears(dirs, ys)
    IN  [k \in 1..Len(fs) |-> [cols |-> fs[k].header, rows |-> fs[k].rows]]

\* unidecode on one character
UnidecodeChar(c) ==
    IF c = "í" THEN "i" ELSE IF c = "ñ" THEN "n" ELSE c

column_renames ==
    << << <<"d", "a", "a", "_", "n", "u", "m", "e", "r", "o">>, <<"d", "i", "a", "_", "n", "u", "m", "e", "r", "o">> >>,
       << <<"a", "a", "o">>, <<"a", "n", "o">> >>,
       << <<"n", "i", "v", "e", "l", "_", "d", "a", "a", "o", "_", "v", "e", "h", "i", "c", "u", "l", "o">>, <<"n", "i", "v", "e", "l", "_", "d", "a", "n", "o", "_", "v", "e", "h", "i", "c", "u", "l", "o">> >>,
       << <<"c", "a", "u", "s", "a", "_", "s", "i", "n", "i", "e", "s", "t", "r", "o">>, <<"t", "i", "p", "o", "_", "d", "e", "_", "p", "e", "r", "c", "a", "n", "c", "e">> >>,
       << <<"p", "u", "n", "t", "o", "_", "d", "e", "_", "i", "m", "p", "a", "c", "t", "o">>, <<"p", "u", "n", "t", "o", "_", "i", "m", "p", "a", "c", "t", "o">> >>,
       << <<"c", "i", "u", "d", "a", "d">>, <<"c", "i", "u", "d", "a", "d", "_", "m", "u", "n", "i", "c", "i", "p", "i", "o">> >>,
       << <<"l", "e", "s", "i", "o", "n", "a", "d", "o", "s">>, <<"t", "o", "t", "a", "l", "_", "l", "e", "s", "i", "o", "n", "a", "d", "o", "s">> >>,
       << <<"r", "e", "l", "a", "c", "i", "o", "n", "_", "l", "e", "s", "i", "o", "n", "a", "d", "o", "s">>, <<"r", "o", "l", "_", "l", "e", "s", "i", "o", "n", "a", "d", "o">> >>,
       << <<"n", "i", "v", "e", "l", "_", "l", "e", "s", "i", "o", "n", "a", "d", "o", "s">>, <<"n", "i", "v", "e", "l", "_", "l", "e", "s", "i", "o", "n">> >>,
       << <<"o", "b", "r", "a", "_", "c", "i", "v", "i", "l">>, <<"d", "a", "n", "o", "_", "o", "b", "r", "a", "_", "c", "i", "v", "i", "l">> >>,
       << <<"f", "u", "g", "a">>, <<"t", "e", "r", "c", "e", "r", "o", "_", "f", "u", "g", "a">> >>,
       << <<"s", "e", "g", "u", "r", "o">>, <<"a", "s", "e", "g", "u", "r", "a", "d", "o", "r", "a">> >>,
       << <<"t", "a", "x", "i">>, <<"s", "e", "r", "v", "i", "c", "i", "o", "_", "t", "a", "x", "i">> >> >>

\* df.rename(columns=column_renames) on one label
Renamed(label) ==
    IF \E k \in 1..Len(column_renames) : column_renames[k][1] = label
    THEN column_renames[CHOOSE k \in 1..Len(column_renames) :
                            column_renames[k][1] = label][2]
    ELSE label

CleanColumnName(col) ==
    Renamed(
      ReplaceMany(
        MapChars(UnidecodeChar,
                 ReplaceMany(ToLowercase(col), << <<" ">> >>, << <<"_">> >>)),
        << <<"_", "r", "e", "p", "o", "r", "t", "e">> >>, << <<>> >>))

clean_column_names(t) ==
    [t EXCEPT !.cols = [j \in 1..Len(t.cols) |-> CleanColumnName(t.cols[j])]]

\* df.assign(label=np.nan)
AssignNull(t, label) ==
    [cols |-> Append(t.cols, label),
     rows |-> [r \in 1..Len(t.rows) |-> Append(t.rows[r], Null)]]

add_missing_columns(t) ==
    LET t1 == IF <<"r", "o", "l", "_", "l", "e", "s", "i", "o", "n", "a", "d", "o">> \notin Labels(t)
              THEN AssignNull(t, <<"r", "o", "l", "_", "l", "e", "s", "i", "o", "n", "a", "d", "o">>) ELSE t
    IN  IF <<"n", "i", "v", "e", "l", "_", "l", "e", "s", "i", "o", "n">> \notin Labels(t1)
        THEN AssignNull(t1, <<"n", "i", "v", "e", "l", "_", "l", "e", "s", "i", "o", "n">>) ELSE t1

\* the columns of the first table, whatever the others hold
CommonColumnsOfFirst(dfs) == Labels(dfs[1])

\* set.intersection(*[set(df.columns) for df in dfs]), for dfs not empty
CommonColumns(dfs) ==
    {c \in Labels(dfs[1]) : \A i \in 1..Len(dfs) : c \in Labels(dfs[i])}

\* the cells of row r of t under label c, one for each column bearing c
Under(t, r, c) ==
    LET pos == SelectSeq([j \in 1..Len(t.cols) |-> j], LAMBDA j : t.cols[j] = c)
    IN  [k \in 1..Len(pos) |-> t.rows[r][pos[k]]]

\* a projection that passes over the rows with a missing value
ProjectDroppingNulls(t, cc) ==
    LET keep == SelectSeq([r \in 1..Len(t.rows) |-> r],
                          LAMBDA r : \A c \in cc : \A k \in 1..Len(Under(t, r, c)) :
                                         Under(t, r, c)[k] # Null)
    IN  [count |-> [c \in cc |-> Cardinality({j \in 1..Len(t.cols) : t.cols[j] = c})],
         rows |-> [r \in 1..Len(keep) |-> [c \in cc |-> Under(t, keep[r], c)]]]

\* df[common_columns]: for each common label every column of t that bears
\* it, all rows kept.  The order of common_columns is the iteration order of
\* a Python set; the projection is kept by label: count is how many columns
\* bear each label, a row gives the cells under each label.
Project(t, cc) ==
    [count |-> [c \in cc |-> Cardinality({j \in 1..Len(t.cols) : t.cols[j] = c})],
     rows |-> [r \in 1..Len(t.rows) |-> [c \in cc |-> Under(t, r, c)]]]

\* pd.concat(tables, ignore_index=True) goes through when the tables bear
\* the same labels in the same order; otherwise it reindexes each table to
\* the union of the labels, which a table bearing a label twice refuses
\* (InvalidIndexError)
ConcatGoesThrough(projected) ==
    \A i \in 1..Len(projected) : projected[i].count = projected[1].count

\* sum(df.shape[0] for df in all_dfs)
RECURSIVE SumRows(_)
SumRows(dfs) ==
    IF Len(dfs) = 0 THEN 0 ELSE Len(dfs[1].rows) + SumRows(Tail(dfs))

validate_data(dfs, final) == SumRows(dfs) = Len(final.rows)

\* a unified table: cols the labels, rows the rows by label
NoTable == [cols |-> {}, rows |-> <<>>]

\* the rows of pd.concat([...], ignore_index=True): table after table
ConcatProjected(projected) ==
    LET RECURSIVE RowsFrom(_)
        RowsFrom(i) == IF i > Len(projected) THEN <<>>
                       ELSE projected[i].rows \o RowsFrom(i + 1)
    IN  RowsFrom(1)

\* a concatenation of the tables as they are, without the projection: the
\* columns are the union of the labels, a table's rows are null under the
\* labels it lacks
UnifiedWithoutProjection(dfs) ==
    LET every == UNION {Labels(dfs[i]) : i \in 1..Len(dfs)}
        filled == [i \in 1..Len(dfs) |->
                     [rows |-> [r \in 1..Len(dfs[i].rows) |->
                                  [c \in every |-> IF c \in Labels(dfs[i])
                                                   THEN Under(dfs[i], r, c)
                                                   ELSE <<Null>>]]]]
    IN  [raised |-> "none",
         df_final |-> [cols |-> every, rows |-> ConcatProjected(filled)]]

\* get_common_columns and the concatenation of the projections, for a list
\* of tables that is not empty: the unified table, or the refusal of concat
Unified(dfs) ==
    LET common_columns == CommonColumns(dfs)
        projected == [i \in 1..Len(dfs) |-> Project(dfs[i], common_columns)]
    IN  IF ConcatGoesThrough(projected)
        THEN [raised |-> "none",
              df_final |-> [cols |-> common_columns, rows |-> ConcatProjected(projected)]]
        ELSE [raised |-> "InvalidIndexError", df_final |-> NoTable]

\* the embedded header rows of the files of the years before the cutover
RawHeaders ==
    << << <<"S", "i", "n", "i", "e", "s", "t", "r", "o">>, <<"C", "i", "u", "d", "a", "d">> >>,
       << <<"S", "I", "N", "I", "E", "S", "T", "R", "O">>, <<"R", "e", "l", "a", "c", "i", "o", "n", " ", "L", "e", "s", "i", "o", "n", "a", "d", "o", "s">> >>,
       << <<"S", "i", "n", "i", "e", "s", "t", "r", "o">>, <<"M", "e", "s">>, <<"M", "e", "s", " ", "R", "e", "p", "o", "r", "t", "e">> >>,
       << <<"S", "i", "n", "i", "e", "s", "t", "r", "o">>, <<"N", "i", "v", "e", "l", " ", "L", "e", "s", "i", "o", "n", "a", "d", "o", "s">> >>,
       << <<"S", "i", "n", "i", "e", "s", "t", "r", "o">>, <<"C", "i", "u", "d", "a", "d", " ", "M", "u", "n", "i", "c", "i", "p", "i", "o">> >> >>

HeaderOfYear(y) ==
    IF y < CutoverYear THEN RawHeaders[((y - FirstYear) % Len(RawHeaders)) + 1] ELSE <<>>

WidthOfYear(y) ==
    IF y < CutoverYear THEN Len(HeaderOfYear(y)) ELSE Len(read_headers)

\* every cell of every file is a number of its own
CsvFile(y) ==
    [name |-> <<"p", "e", "r", "c", "a", "n", "c", "e", "s", ".", "c", "s", "v">>,
     header |-> HeaderOfYear(y),
     rows |-> [r \in 1..((y - FirstYear) % 3) |->
                 [j \in 1..WidthOfYear(y) |-> Int64((y - 2000) * 100 + r * 10 + j)]]]

NotesFile == [name |-> <<"n", "o", "t", "a", "s", ".", "x", "l", "s", "x">>, header |-> <<>>, rows |-> <<>>]

\* any set of year directories; a directory holds the year's CSV file or
\* only a file that is no CSV
YearDirChoices ==
    UNION {{[y \in D |-> IF y \in C THEN <<CsvFile(y)>> ELSE <<NotesFile>>] :
               C \in SUBSET D} : D \in SUBSET Years}

InitSchema ==
    /\ pc = "start"
    /\ exc = "none"
    /\ year_dirs \in YearDirChoices
    /\ all_dfs = <<>>
    /\ df_final = NoTable
    /\ perm = Idle
    /\ df_perm = Idle
    /\ is_valid = FALSE
    /\ ValueIdle
    /\ NumericIdle
    /\ ExportIdle
    /\ LoaderIdle

\* the tables process_and_clean_data holds after add_missing_columns
PerFileTables(dirs) ==
    LET df_without_headers ==
            process_files_without_headers(dirs, Range(CutoverYear, CurrentYear + 1),
                                          read_headers)
        dfs_with_headers == process_files_with_headers(dirs, Range(FirstYear, CutoverYear))
        \* DataFrame.empty: no column or no row
        empty == Len(df_without_headers.cols) = 0 \/ Len(df_without_headers.rows) = 0
        read == IF ~empty THEN <<df_without_headers>> \o dfs_with_headers
                ELSE dfs_with_headers
    IN  [i \in 1..Len(read) |-> add_missing_columns(clean_column_names(read[i]))]

ProcessAndCleanData ==
    /\ pc = "start"
    /\ LET dfs == PerFileTables(year_dirs)
       IN  \/ \* set.intersection() of no set at all: TypeError
              /\ Len(dfs) = 0
              /\ pc' = "raised"
              /\ exc' = "TypeError"
              /\ UNCHANGED <<all_dfs, df_final>>
           \/ /\ Len(dfs) > 0
              /\ LET u == Unified(dfs)
                 IN  IF u.raised = "none"
                     THEN /\ pc' = "processed"
                          /\ all_dfs' = dfs
                          /\ df_final' = u.df_final
                          /\ UNCHANGED exc
                     ELSE /\ pc' = "raised"
                          /\ exc' = u.raised
                          /\ UNCHANGED <<all_dfs, df_final>>
    /\ UNCHANGED <<year_dirs, perm, df_perm, is_valid, valueVars, numericVars, exportVars, loaderVars>>

ValidateData ==
    /\ pc = "processed"
    /\ is_valid' = validate_data(all_dfs, df_final)
    /\ pc' = "validated"
    /\ UNCHANGED <<exc, year_dirs, all_dfs, df_final, perm, df_perm, valueVars, numericVars,
                   exportVars, loaderVars>>

NextSchema == ProcessAndCleanData \/ ValidateData

SpecSchema == InitSchema /\ [][NextSchema]_vars

\* the rows of the CSV files in the year directories that exist
RowsOnDisk ==
    LET RECURSIVE Count(_)
        Count(ys) ==
            IF ys = {} THEN 0
            ELSE LET y == CHOOSE z \in ys : TRUE
                     fs == year_dirs[y]
                 IN  Cardinality({k \in 1..Len(fs) : EndsWith(fs[k].name, <<".", "c", "s", "v">>)})
                       * Len(CsvFile(y).rows)
                     + Count(ys \ {y})
    IN  Count(DOMAIN year_dirs)

\* C1: the unified table has as many rows as the per-file tables together,
\* and validate_data returns True exactly when it has.
C1_RowCount ==
    /\ pc \in {"processed", "validated"} =>
          /\ Len(all_dfs) > 0
          /\ Len(df_final.rows) = SumRows(all_dfs)
          /\ Len(df_final.rows) = RowsOnDisk
    /\ pc = "validated" =>
          (is_valid <=> Len(df_final.rows) = SumRows(all_dfs))

\* tables of unlike column sets and row counts were unified and validated
C1_Witness ==
    /\ pc = "validated"
    /\ is_valid
    /\ Len(all_dfs) >= 3
    /\ \E i, j \in 1..Len(all_dfs) :
          /\ Labels(all_dfs[i]) # Labels(all_dfs[j])
          /\ Len(all_dfs[i].rows) # Len(all_dfs[j].rows)
    /\ Len(df_final.rows) >= 3

\* every label a table of the model can bear
AllLabels == UNION {Labels(all_dfs[i]) : i \in 1..Len(all_dfs)}

\* C2: a column is in the unified table exactly when every per-file table
\* has it after clean_column_names and add_missing_columns, and every row of
\* the unified table holds, under exactly these columns, what its own table
\* held under them.
C2_ColumnsAreIntersection ==
    pc \in {"processed", "validated"} =>
        /\ \A c \in AllLabels \cup df_final.cols :
              c \in df_final.cols <=> \A i \in 1..Len(all_dfs) : c \in Labels(all_dfs[i])
        /\ \A r \in 1..Len(df_final.rows) : DOMAIN df_final.rows[r] = df_final.cols
        /\ \A i \in 1..Len(all_dfs) :
              \A r \in 1..Len(all_dfs[i].rows) :
                 \A c \in df_final.cols :
                    \A k \in 1..Len(df_final.rows[SumRows(SubSeq(all_dfs, 1, i - 1)) + r][c]) :
                       \E j \in 1..Len(all_dfs[i].cols) :
                          /\ all_dfs[i].cols[j] = c
                          /\ df_final.rows[SumRows(SubSeq(all_dfs, 1, i - 1)) + r][c][k]
                               = all_dfs[i].rows[r][j]

\* tables that share some columns and differ in others were unified
C2_Witness ==
    /\ pc = "processed"
    /\ Len(all_dfs) >= 2
    /\ \E i \in 1..Len(all_dfs) : Labels(all_dfs[i]) # df_final.cols
    /\ <<"s", "i", "n", "i", "e", "s", "t", "r", "o">> \in df_final.cols
    /\ <<"r", "o", "l", "_", "l", "e", "s", "i", "o", "n", "a", "d", "o">> \in df_final.cols
    /\ Len(df_final.rows) >= 2

\* C10: whichever year directories exist, process_and_clean_data completes
\* without raising and the unified table holds exactly the rows of the CSV
\* files found.
C10_MissingYearsNoError ==
    pc # "start" =>
        /\ exc = "none"
        /\ Len(df_final.rows) = RowsOnDisk

\* the same, for runs that found at least one table to unify and whose
\* tables bear no label twice
C10_SomeTableFound ==
    (pc # "start" /\ exc # "InvalidIndexError") =>
        \/ exc = "none" /\ Len(df_final.rows) = RowsOnDisk
        \/ exc = "TypeError" /\ Len(PerFileTables(year_dirs)) = 0


\* no label twice in a sequence of labels
PairwiseDistinct(cols) ==
    \A i, j \in 1..Len(cols) : cols[i] = cols[j] => i = j

\* the raw headers of every file on disk, and of the dictionary, are
\* pairwise distinct
RawHeadersDistinct ==
    /\ PairwiseDistinct(read_headers)
    /\ \A y \in DOMAIN year_dirs :
          \A k \in 1..Len(year_dirs[y]) : PairwiseDistinct(year_dirs[y][k].header)

\* C12: the raw headers of every table being pairwise distinct, the column
\* names of every table after clean_column_names and add_missing_columns are
\* pairwise distinct, and every row of the unified table holds exactly one
\* cell under each common column.
C12_NamesStayUnique ==
    (pc # "start" /\ RawHeadersDistinct) =>
        /\ \A i \in 1..Len(PerFileTables(year_dirs)) :
              PairwiseDistinct(PerFileTables(year_dirs)[i].cols)
        /\ pc \in {"processed", "validated"} =>
              \A r \in 1..Len(df_final.rows) :
                 \A c \in df_final.cols : Len(df_final.rows[r][c]) = 1

\* the same for the runs none of whose files has both a "Mes" and a
\* "Mes Reporte" column
C12_UniqueWithoutMesPair ==
    (pc # "start" /\ RawHeadersDistinct
       /\ \A y \in DOMAIN year_dirs :
             \A k \in 1..Len(year_dirs[y]) :
                ~(InSeq(year_dirs[y][k].header, <<"M", "e", "s">>)
                    /\ InSeq(year_dirs[y][k].header, <<"M", "e", "s", " ", "R", "e", "p", "o", "r", "t", "e">>))) =>
        /\ \A i \in 1..Len(PerFileTables(year_dirs)) :
              PairwiseDistinct(PerFileTables(year_dirs)[i].cols)
        /\ pc \in {"processed", "validated"} =>
              \A r \in 1..Len(df_final.rows) :
                 \A c \in df_final.cols : Len(df_final.rows[r][c]) = 1
---------------------------------------------------------------------------
(* The schema intersection and the concatenation (get_common_columns and   *)
(* lines 147-149) on a list of per-file tables and on the same list in     *)
(* another order.                                                          *)

MaxTables == 3

\* the per-file table of a year, as process_and_clean_data holds it
TableOfYear(y) ==
    add_missing_columns(clean_column_names(
        [cols |-> IF y < CutoverYear THEN HeaderOfYear(y) ELSE read_headers,
         rows |-> CsvFile(y).rows]))

TableChoices == {TableOfYear(y) : y \in FirstYear..CutoverYear}

OrdersOf(n) == {p \in [1..n -> 1..n] : \A i, j \in 1..n : p[i] = p[j] => i = j}

InitReconcile ==
    /\ pc = "start"
    /\ exc = "none"
    /\ year_dirs = Idle
    /\ \E n \in 1..MaxTables :
          /\ all_dfs \in [1..n -> TableChoices]
          /\ perm \in OrdersOf(n)
    /\ df_final = NoTable
    /\ df_perm = NoTable
    /\ is_valid = FALSE
    /\ ValueIdle
    /\ NumericIdle
    /\ ExportIdle
    /\ LoaderIdle

Reconcile ==
    /\ pc = "start"
    /\ LET u == Unified(all_dfs)
           v == Unified([i \in 1..Len(all_dfs) |-> all_dfs[perm[i]]])
       IN  /\ df_final' = u.df_final
           /\ df_perm' = v.df_final
           /\ exc' = u.raised
           /\ pc' = IF u.raised # v.raised THEN "diverged"
                    ELSE IF u.raised = "none" THEN "reconciled" ELSE "raised"
    /\ UNCHANGED <<year_dirs, all_dfs, perm, is_valid, valueVars, numericVars, exportVars, loaderVars>>

NextReconcile == Reconcile

SpecReconcile == InitReconcile /\ [][NextReconcile]_vars

\* the rows of a unified table as a bag
RowBag(t) ==
    [row \in {t.rows[r] : r \in 1..Len(t.rows)} |->
        Cardinality({r \in 1..Len(t.rows) : t.rows[r] = row})]

\* the rows before those of the i-th table of the other order
RowsBefore(i) == SumRows([k \in 1..(i - 1) |-> all_dfs[perm[k]]])

\* C3: in whatever order the tables are listed, the unified table holds the
\* same columns and the same bag of rows, concat is refused in the one order
\* exactly when it is in the other, and the rows of each table stand in the
\* unified table in their original order.
C3_OrderOfTables ==
    /\ pc # "diverged"
    /\ pc = "reconciled" =>
          /\ df_perm.cols = df_final.cols
          /\ RowBag(df_perm) = RowBag(df_final)
          /\ Len(df_perm.rows) = SumRows(all_dfs)
          /\ \A i \in 1..Len(all_dfs) :
                \A r \in 1..Len(all_dfs[perm[i]].rows) :
                   \A c \in df_perm.cols :
                      df_perm.rows[RowsBefore(i) + r][c] = Under(all_dfs[perm[i]], r, c)

\* three tables, not all alike, unified in an order that moves each of them
C3_Witness ==
    /\ pc = "reconciled"
    /\ Len(all_dfs) = 3
    /\ \A i \in 1..3 : perm[i] # i
    /\ all_dfs[1] # all_dfs[2]
    /\ Labels(all_dfs[1]) # Labels(all_dfs[3])
    /\ Len(df_final.rows) >= 3
    /\ df_final.rows # df_perm.rows

---------------------------------------------------------------------------
(* data_loader.py.  A place in the destination folders is [folder, name];  *)
(* a file of temp_extract is [dir, name]; dest and temp.files give the     *)
(* content of each file there is.                                          *)

NoFiles == [p \in {} |-> ""]

With(f, k, v) == [p \in DOMAIN f \cup {k} |-> IF p = k THEN v ELSE f[p]]

Without(f, k) == [p \in DOMAIN f \ {k} |-> f[p]]

\* os.path.basename
Basename(s) ==
    LET cuts == {i \in 1..Len(s) : s[i] = "/"}
    IN  IF cuts = {} THEN s
        ELSE SubSeq(s, (CHOOSE i \in cuts : \A j \in cuts : j <= i) + 1, Len(s))

\* extract_year: the first year of range(2015, now + 1) whose digits the
\* name holds, 0 for None
extract_year(file_name) ==
    LET found == {y \in FirstYear..CurrentYear : Contains(file_name, DecimalText(y))}
    IN  IF found = {} THEN 0 ELSE CHOOSE y \in found : \A z \in found : y <= z

NoPlace == [folder |-> <<>>, name |-> <<>>]

\* the destination process_file settles on, NoPlace when it gives up
Destination(file_name) ==
    IF Contains(ToLowercase(file_name), <<"d", "i", "c", "c", "i", "o", "n", "a", "r", "i", "o", "-", "p", "e", "r", "c", "a", "n", "c", "e", "s", "-", "v", "i", "a", "l", "e", "s", "-", "a", "x", "a", "-", "1">>)
    THEN [folder |-> <<"d", "a", "t", "a", "-", "d", "i", "c", "t", "i", "o", "n", "a", "r", "y">>, name |-> file_name]
    ELSE IF extract_year(file_name) # 0
         THEN [folder |-> DecimalText(extract_year(file_name)), name |-> file_name]
         ELSE NoPlace

\* process_file on the destination files d and the extracted files t,
\* path being the file handed in.
\* file_content is "" when none is given (or an empty one); fails is whether
\* the file system refuses the write or the move.
process_file(d, t, path, file_content, fails) ==
    LET destination == Destination(path.name)
    IN  IF destination = NoPlace THEN [dest |-> d, temp |-> t, raised |-> "none"]
        ELSE IF destination \in DOMAIN d
             THEN [dest |-> d, temp |-> t, raised |-> "none"]
        ELSE IF file_content # ""
             THEN \* open(destination, "wb") and write
                  IF fails THEN [dest |-> d, temp |-> t, raised |-> "OSError"]
                  ELSE [dest |-> With(d, destination, file_content), temp |-> t,
                        raised |-> "none"]
        ELSE \* shutil.move(path, destination)
             IF path \notin DOMAIN t \/ fails
             THEN [dest |-> d, temp |-> t, raised |-> "OSError"]
             ELSE [dest |-> With(d, destination, t[path]),
                   temp |-> Without(t, path), raised |-> "none"]

\* the loop over os.walk(temp_dir): the files in the order ord from the
\* i-th on; fail is the place in ord of the file whose move the file system
\* refuses, 0 when it refuses none
RECURSIVE WalkFrom(_, _, _, _, _)
WalkFrom(d, t, ord, i, fail) ==
    IF i > Len(ord) THEN [dest |-> d, temp |-> t, raised |-> "none"]
    ELSE LET r == process_file(d, t, ord[i], "", fail = i)
         IN  IF r.raised # "none" THEN r
             ELSE WalkFrom(r.dest, r.temp, ord, i + 1, fail)

\* z.extractall(path=temp_dir): the members written in order over what the
\* directory holds; a member whose check sum fails raises BadZipFile after
\* the members before it are written
RECURSIVE ExtractFrom(_, _, _)
ExtractFrom(t, members, i) ==
    IF i > Len(members) THEN [files |-> t, raised |-> "none"]
    ELSE IF members[i].corrupt THEN [files |-> t, raised |-> "BadZipFile"]
    ELSE ExtractFrom(With(t, [dir |-> members[i].dir, name |-> members[i].name],
                          members[i].content),
                     members, i + 1)

\* the orders in which os.walk may list a set of files
WalkOrders(S) ==
    {s \in [1..Cardinality(S) -> S] : \A i, j \in 1..Cardinality(S) : s[i] = s[j] => i = j}


\* the links of the page
FileLink(href, content) ==
    [href |-> href, http_ok |-> TRUE, bad_zip |-> FALSE, content |-> content,
     members |-> <<>>]

Member(dir, name, content, corrupt) ==
    [dir |-> dir, name |-> name, content |-> content, corrupt |-> corrupt]

ZipLink(href, members) ==
    [href |-> href, http_ok |-> TRUE, bad_zip |-> FALSE, content |-> "zip", members |-> members]

LinkChoices ==
    { FileLink(<<"d", "/", "a", "x", "a", "_", "2", "0", "1", "5", ".", "c", "s", "v">>, "v1"),
      FileLink(<<"d", "/", "a", "x", "a", "_", "2", "0", "1", "5", ".", "c", "s", "v">>, "v2"),
      FileLink(<<"d", "/", "a", "x", "a", "_", "2", "0", "1", "6", ".", "c", "s", "v">>, ""),
      FileLink(<<"d", "/", "D", "i", "c", "c", "i", "o", "n", "a", "r", "i", "o", "-", "P", "e", "r", "c", "a", "n", "c", "e", "s", "-", "V", "i", "a", "l", "e", "s", "-", "A", "X", "A", "-", "1", ".", "X", "L", "S", "X">>, "v1"),
      FileLink(<<"d", "/", "a", "c", "e", "r", "c", "a", ".", "h", "t", "m", "l">>, "v1"),
      [FileLink(<<"d", "/", "a", "x", "a", "_", "2", "0", "1", "8", ".", "c", "s", "v">>, "v1") EXCEPT !.http_ok = FALSE],
      ZipLink(<<"d", "/", "a", ".", "z", "i", "p">>,
              << Member("x", <<"a", "x", "a", "_", "2", "0", "1", "6", ".", "c", "s", "v">>, "v1", FALSE),
                 Member("x", <<"l", "e", "e", "m", "e", ".", "t", "x", "t">>, "v1", FALSE),
                 Member("y", <<"a", "x", "a", "_", "2", "0", "1", "6", ".", "c", "s", "v">>, "v2", FALSE) >>),
      [ZipLink(<<"d", "/", "b", ".", "z", "i", "p">>, <<>>) EXCEPT !.bad_zip = TRUE],
      ZipLink(<<"d", "/", "c", ".", "z", "i", "p">>,
              << Member("x", <<"a", "x", "a", "_", "2", "0", "1", "7", ".", "c", "s", "v">>, "v1", FALSE),
                 Member("x", <<"a", "x", "a", "_", "2", "0", "1", "8", ".", "c", "s", "v">>, "v1", TRUE) >>) }

MaxLinks == 2

MaxRuns == 2

Pages == UNION {[1..n -> LinkChoices] : n \in 0..MaxLinks}

NoTemp == [exists |-> FALSE, files |-> NoFiles]

InitLoader ==
    /\ pc = "start"
    /\ exc = "none"
    /\ links \in Pages
    /\ idx = 0
    /\ run = 0
    \* the folders are empty, or hold a file of an earlier day
    /\ dest \in {NoFiles,
                 With(NoFiles, [folder |-> <<"2", "0", "1", "5">>, name |-> <<"a", "x", "a", "_", "2", "0", "1", "5", ".", "c", "s", "v">>], "v0")}
    /\ temp = NoTemp
    /\ caught = "none"
    /\ faulted = FALSE
    /\ dest_at_call = dest
    /\ dest_first = NoFiles
    /\ ValueIdle
    /\ NumericIdle
    /\ ExportIdle
    /\ SchemaIdle

otherVars == <<pc, exc, valueVars, numericVars, exportVars, schemaVars>>

\* get_data up to the loop: the page is read and the folders are made
GetDataBegin ==
    /\ idx = 0
    /\ run < MaxRuns
    /\ idx' = 1
    /\ caught' = "none"
    /\ dest_at_call' = dest
    /\ UNCHANGED <<links, run, dest, temp, faulted, dest_first, otherVars>>

\* get_data returns, having caught kind or nothing, the destination files
\* being d
Return(kind, d) ==
    /\ idx' = 0
    /\ run' = run + 1
    /\ caught' = kind
    /\ dest_first' = IF run = 0 THEN d ELSE dest_first

Relevant(href) ==
    \E ext \in { <<".", "z", "i", "p">>, <<".", "x", "l", "s", "x">>, <<".", "c", "s", "v">> } : Contains(ToLowercase(href), ext)

\* one turn of `for link in links`
HandleLink ==
    /\ idx \in 1..Len(links)
    /\ LET link == links[idx]
       IN  \/ \* no .zip, .xlsx or .csv in the href
              /\ ~Relevant(link.href)
              /\ idx' = idx + 1
              /\ UNCHANGED <<run, dest, temp, caught, faulted, dest_first>>
           \/ \* file_response.raise_for_status() raises
              /\ Relevant(link.href)
              /\ ~link.http_ok
              /\ Return("RequestException", dest)
              /\ UNCHANGED <<dest, temp, faulted>>
           \/ \* zipfile.ZipFile(...) raises
              /\ Relevant(link.href) /\ link.http_ok
              /\ EndsWith(ToLowercase(link.href), <<".", "z", "i", "p">>)
              /\ link.bad_zip
              /\ Return("BadZipFile", dest)
              /\ UNCHANGED <<dest, temp, faulted>>
           \/ \* the archive is opened
              /\ Relevant(link.href) /\ link.http_ok
              /\ EndsWith(ToLowercase(link.href), <<".", "z", "i", "p">>)
              /\ ~link.bad_zip
              /\ LET x == ExtractFrom(temp.files, link.members, 1)
                 IN  IF x.raised # "none"
                     THEN \* extractall raises
                          /\ temp' = [exists |-> TRUE, files |-> x.files]
                          /\ Return(x.raised, dest)
                          /\ UNCHANGED <<dest, faulted>>
                     ELSE \E ord \in WalkOrders(DOMAIN x.files) :
                          \E fail \in 0..Len(ord) :
                             LET r == WalkFrom(dest, x.files, ord, 1, fail)
                             IN  IF r.raised # "none"
                                 THEN \* process_file raises: no rmtree
                                      /\ dest' = r.dest
                                      /\ temp' = [exists |-> TRUE, files |-> r.temp]
                                      /\ faulted' = TRUE
                                      /\ Return(r.raised, r.dest)
                                 ELSE \* shutil.rmtree(temp_dir)
                                      /\ dest' = r.dest
                                      /\ temp' = NoTemp
                                      /\ idx' = idx + 1
                                      /\ UNCHANGED <<run, caught, faulted, dest_first>>
           \/ \* an Excel or CSV file
              /\ Relevant(link.href) /\ link.http_ok
              /\ ~EndsWith(ToLowercase(link.href), <<".", "z", "i", "p">>)
              /\ \E fails \in BOOLEAN :
                    LET r == process_file(dest, temp.files,
                                          [dir |-> ".", name |-> Basename(link.href)],
                                          link.content, fails)
                    IN  /\ dest' = r.dest
                        /\ IF r.raised # "none"
                           THEN /\ Return(r.raised, r.dest)
                                /\ faulted' = (faulted \/ link.content # "")
                           ELSE /\ idx' = idx + 1
                                /\ UNCHANGED <<run, caught, faulted, dest_first>>
                        /\ UNCHANGED temp
    /\ UNCHANGED <<links, dest_at_call, otherVars>>

\* the loop is through
GetDataEnd ==
    /\ idx = Len(links) + 1
    /\ Return("none", dest)
    /\ UNCHANGED <<links, dest, temp, faulted, dest_at_call, otherVars>>

NextLoader == GetDataBegin \/ HandleLink \/ GetDataEnd

SpecLoader == InitLoader /\ [][NextLoader]_vars

\* C9: a file that was at its destination when a call began has the same
\* content afterwards, and once the acquisition has run on the page, running
\* it again on the same page leaves the destination folders as they were.
C9_Idempotent ==
    /\ \A p \in DOMAIN dest_at_call : p \in DOMAIN dest /\ dest[p] = dest_at_call[p]
    /\ (idx = 0 /\ run >= 2 /\ ~faulted) => dest = dest_first

\* the first half of C9 alone
C9_NeverOverwritten ==
    \A p \in DOMAIN dest_at_call : p \in DOMAIN dest /\ dest[p] = dest_at_call[p]

\* C11: whenever get_data has returned, normally or after a caught download,
\* archive or file-system failure, the temp_extract directory does not exist,
\* and no archive is extracted into a directory that holds earlier files.
C11_TempReleased ==
    /\ (idx = 0 /\ run >= 1) => ~temp.exists
    /\ (idx \in 1..Len(links)) => temp.files = NoFiles

\* get_data does release the directory when it returns having caught nothing
C11_ReleasedOnNormalReturn ==
    (idx = 0 /\ run >= 1 /\ caught = "none") => ~temp.exists

===========================================================================
